---- MODULE Spec2Model ----
(***************************************************************************)
(* Model of the azure-external-issuer certificate-request reconciler.      *)
(*                                                                         *)
(* The state is the resource store (CertificateRequests, Issuers,          *)
(* Secrets), the fields of the CertificateRequestReconciler, the clock,    *)
(* and a record `last` that logs what the most recent Reconcile invocation *)
(* saw, did and returned.  One Reconcile invocation is one atomic step:    *)
(* the dispatcher runs at most one reconciliation per request at a time.   *)
(*                                                                         *)
(* Strings that the code only compares or concatenates are TLA+ strings.   *)
(* Strings that the code inspects character by character (vault names,     *)
(* URLs, endpoints) are sequences of pieces, one character each where the  *)
(* code looks at characters.                                               *)
(* The lastTransitionTime that cert-manager keeps on CertificateRequest    *)
(* conditions is not modelled: it is written by the library from its own   *)
(* clock and nothing in this repository reads it.                          *)
(***************************************************************************)
EXTENDS Integers, Sequences, FiniteSets, TLC

(***************************************************************************)
(* Bounds                                                                  *)
(***************************************************************************)
MaxClock == 2
MaxSigns == 2

(***************************************************************************)
(* Names and texts taken from the source                                   *)
(***************************************************************************)
ExpectedGroup == "azure-issuer.microsoft.com"
ForeignGroup == "cert-manager.io"

errIssuerRef == "error interpreting issuerRef"
errGetIssuer == "error getting issuer"
errIssuerNotReady == "issuer is not ready"
errSignerBuilder == "failed to build the signer"
errSignerSign == "failed to sign"
\* errGetAuthSecret is used by Reconcile but declared in a file of the package
\* that is not among the sources; only its use as a message prefix matters.
errGetAuthSecret == "failed to get Secret containing Issuer credentials"

DeniedMessage == "The CertificateRequest was denied by an approval controller"
InitializingMessage == "Initializing"
SignedMessage == "Signed"

ReasonPending == "Pending"
ReasonDenied == "Denied"
ReasonFailed == "Failed"
ReasonIssued == "Issued"

ConditionTrue == "True"
ConditionFalse == "False"

ConditionReady == "Ready"
ConditionApproved == "Approved"
ConditionDenied == "Denied"

cloudKey == "cloud"
tenantIDKey == "tenantID"
aadClientIDKey == "aadClientID"
aadClientSecretKey == "aadClientSecret"
useManagedIdentityKey == "useManagedIdentity"
userAssignedIdentityIDKey == "userAssignedIdentity"

(***************************************************************************)
(* Absent values                                                           *)
(***************************************************************************)
NoCR == [absent |-> "CertificateRequest"]
NoCondition == [absent |-> "Condition"]
NoSigner == [absent |-> "Signer"]
NoIssuer == [absent |-> "Issuer"]
NoSecret == [absent |-> "Secret"]
NoTime == 0
NoBytes == ""
NilError == <<>>

(***************************************************************************)
(* Errors.  An error value is the sequence of the messages it aggregates;  *)
(* nil is the empty sequence.  NewAggregate drops nil members.             *)
(***************************************************************************)
Err(msg) == <<msg>>

NewAggregate(e1, e2) == e1 \o e2

RECURSIVE JoinMessages(_)
JoinMessages(e) ==
    IF Len(e) = 0 THEN ""
    ELSE IF Len(e) = 1 THEN e[1]
    ELSE e[1] \o ", " \o JoinMessages(Tail(e))

ErrorText(e) ==
    IF Len(e) = 1 THEN e[1] ELSE "[" \o JoinMessages(e) \o "]"

(***************************************************************************)
(* cert-manager condition helpers, as used by Reconcile                    *)
(***************************************************************************)
RECURSIVE FirstIndexOfType(_, _, _)
FirstIndexOfType(conds, type, i) ==
    IF i > Len(conds) THEN 0
    ELSE IF conds[i].Type = type THEN i
    ELSE FirstIndexOfType(conds, type, i + 1)

GetCertificateRequestCondition(cr, type) ==
    LET i == FirstIndexOfType(cr.Conditions, type, 1)
    IN  IF i = 0 THEN NoCondition ELSE cr.Conditions[i]

CertificateRequestHasCondition(cr, type, status) ==
    \E i \in 1..Len(cr.Conditions) :
        cr.Conditions[i].Type = type /\ cr.Conditions[i].Status = status

CertificateRequestIsDenied(cr) ==
    \E i \in 1..Len(cr.Conditions) :
        cr.Conditions[i].Type = ConditionDenied /\ cr.Conditions[i].Status = ConditionTrue

CertificateRequestIsApproved(cr) ==
    \E i \in 1..Len(cr.Conditions) :
        cr.Conditions[i].Type = ConditionApproved /\ cr.Conditions[i].Status = ConditionTrue

SetCertificateRequestCondition(cr, type, status, reason, message) ==
    LET newCondition == [Type |-> type, Status |-> status, Reason |-> reason, Message |-> message]
        i == FirstIndexOfType(cr.Conditions, type, 1)
    IN  IF i = 0
        THEN [cr EXCEPT !.Conditions = Append(@, newCondition)]
        ELSE [cr EXCEPT !.Conditions = [@ EXCEPT ![i] = newCondition]]

\* setReadyCondition that also rewrites the request's issuer reference.
setReadyCondition_RewritesIssuerRef(cr, status, reason, message) ==
    [SetCertificateRequestCondition(cr, ConditionReady, status, reason, message)
        EXCEPT !.IssuerName = "other"]

setReadyCondition(cr, status, reason, message) ==
    SetCertificateRequestCondition(cr, ConditionReady, status, reason, message)

(***************************************************************************)
(* Issuer helpers (internal/issuer/util)                                   *)
(***************************************************************************)
IssuerKinds == {"Issuer", "ClusterIssuer"}

GetSpecAndStatus(issuer) ==
    IF issuer.Kind \in IssuerKinds
    THEN [Spec |-> issuer.Spec, Status |-> issuer.Status, err |-> NilError]
    ELSE [Spec |-> issuer.Spec, Status |-> issuer.Status, err |-> Err("not an issuer type")]

GetReadyCondition(status) ==
    LET i == FirstIndexOfType(status.Conditions, ConditionReady, 1)
    IN  IF i = 0 THEN NoCondition ELSE status.Conditions[i]

IsReady(status) ==
    LET c == GetReadyCondition(status)
    IN  IF c # NoCondition THEN c.Status = ConditionTrue ELSE FALSE

\* SetReadyCondition appending a new Ready condition on every call.
SetReadyCondition_AlwaysAppend(status, conditionStatus, reason, message, now) ==
    [status EXCEPT !.Conditions =
        Append(@, [Type |-> ConditionReady, Status |-> conditionStatus, Reason |-> reason,
                   Message |-> message, LastTransitionTime |-> now])]

\* SetReadyCondition stamping the transition time on every call.
SetReadyCondition_AlwaysStamp(status, conditionStatus, reason, message, now) ==
    LET found == GetReadyCondition(status)
        ready2 == [Type |-> ConditionReady, Status |-> conditionStatus, Reason |-> reason,
                   Message |-> message, LastTransitionTime |-> now]
        conds0 == IF found = NoCondition THEN Append(status.Conditions, ready2)
                  ELSE status.Conditions
        i == FirstIndexOfType(conds0, ConditionReady, 1)
    IN  [status EXCEPT !.Conditions = [conds0 EXCEPT ![i] = ready2]]

SetReadyCondition(status, conditionStatus, reason, message, now) ==
    LET found == GetReadyCondition(status)
        created == [Type |-> ConditionReady, Status |-> "", Reason |-> "", Message |-> "",
                    LastTransitionTime |-> NoTime]
        ready0 == IF found = NoCondition THEN created ELSE found
        conds0 == IF found = NoCondition THEN Append(status.Conditions, created)
                  ELSE status.Conditions
        ready1 == IF ready0.Status # conditionStatus
                  THEN [ready0 EXCEPT !.Status = conditionStatus, !.LastTransitionTime = now]
                  ELSE ready0
        ready2 == [ready1 EXCEPT !.Reason = reason, !.Message = message]
        i == FirstIndexOfType(conds0, ConditionReady, 1)
    IN  [status EXCEPT !.Conditions = IF i = 0 THEN conds0 ELSE [conds0 EXCEPT ![i] = ready2]]

(***************************************************************************)
(* Auth config (internal/issuer/signer/config.go)                          *)
(* Secret data is a function from some of the keys to values; a key that   *)
(* is not in the map reads as the empty string.                            *)
(***************************************************************************)
SecretValue(data, key) == IF key \in DOMAIN data THEN data[key] ELSE ""

ParseBoolTrue == {"1", "t", "T", "TRUE", "true", "True"}
ParseBoolFalse == {"0", "f", "F", "FALSE", "false", "False"}

ParseBool(str) ==
    IF str \in ParseBoolTrue THEN [value |-> TRUE, err |-> NilError]
    ELSE IF str \in ParseBoolFalse THEN [value |-> FALSE, err |-> NilError]
    ELSE [value |-> FALSE, err |-> Err("strconv.ParseBool: parsing " \o str \o ": invalid syntax")]

NoConfig == [absent |-> "authConfig"]

\* getConfigFromSecretData reading the user-assigned identity from another key.
getConfigFromSecretData_OtherIdentityKey(data) ==
    LET config == [cloud |-> SecretValue(data, cloudKey),
                   tenantID |-> SecretValue(data, tenantIDKey),
                   aadClientID |-> SecretValue(data, aadClientIDKey),
                   aadClientSecret |-> SecretValue(data, aadClientSecretKey),
                   userAssignedIdentityID |-> SecretValue(data, "userAssignedIdentityID"),
                   useManagedIdentity |-> FALSE]
        raw == SecretValue(data, useManagedIdentityKey)
        parsed == ParseBool(raw)
    IN  IF raw # ""
        THEN IF parsed.err # NilError
             THEN [config |-> NoConfig,
                   err |-> Err("failed to parse auth config: " \o ErrorText(parsed.err))]
             ELSE [config |-> [config EXCEPT !.useManagedIdentity = parsed.value], err |-> NilError]
        ELSE [config |-> config, err |-> NilError]

\* getConfigFromSecretData taking an unparseable useManagedIdentity for false.
getConfigFromSecretData_IgnoreParseError(data) ==
    LET config == [cloud |-> SecretValue(data, cloudKey),
                   tenantID |-> SecretValue(data, tenantIDKey),
                   aadClientID |-> SecretValue(data, aadClientIDKey),
                   aadClientSecret |-> SecretValue(data, aadClientSecretKey),
                   userAssignedIdentityID |-> SecretValue(data, userAssignedIdentityIDKey),
                   useManagedIdentity |-> FALSE]
        raw == SecretValue(data, useManagedIdentityKey)
        parsed == ParseBool(raw)
    IN  [config |-> [config EXCEPT !.useManagedIdentity = parsed.value], err |-> NilError]

getConfigFromSecretData(data) ==
    LET config == [cloud |-> SecretValue(data, cloudKey),
                   tenantID |-> SecretValue(data, tenantIDKey),
                   aadClientID |-> SecretValue(data, aadClientIDKey),
                   aadClientSecret |-> SecretValue(data, aadClientSecretKey),
                   userAssignedIdentityID |-> SecretValue(data, userAssignedIdentityIDKey),
                   useManagedIdentity |-> FALSE]
        raw == SecretValue(data, useManagedIdentityKey)
        parsed == ParseBool(raw)
    IN  IF raw # ""
        THEN IF parsed.err # NilError
             THEN [config |-> NoConfig,
                   err |-> Err("failed to parse auth config: " \o ErrorText(parsed.err))]
             ELSE [config |-> [config EXCEPT !.useManagedIdentity = parsed.value], err |-> NilError]
        ELSE [config |-> config, err |-> NilError]

(***************************************************************************)
(* Cloud environments.  The table is the one of go-autorest; endpoints are *)
(* sequences of pieces, the trailing slash a piece of its own.             *)
(***************************************************************************)
PublicCloud ==
    [Name |-> "AzurePublicCloud",
     ActiveDirectoryEndpoint |-> <<"https://login.microsoftonline.com", "/">>,
     KeyVaultEndpoint |-> <<"https://vault.azure.net", "/">>,
     KeyVaultDNSSuffix |-> <<"vault.azure.net">>,
     ServiceManagementEndpoint |-> <<"https://management.core.windows.net", "/">>]

ChinaCloud ==
    [Name |-> "AzureChinaCloud",
     ActiveDirectoryEndpoint |-> <<"https://login.chinacloudapi.cn", "/">>,
     KeyVaultEndpoint |-> <<"https://vault.azure.cn", "/">>,
     KeyVaultDNSSuffix |-> <<"vault.azure.cn">>,
     ServiceManagementEndpoint |-> <<"https://management.core.chinacloudapi.cn", "/">>]

NoEnvironment ==
    [Name |-> "", ActiveDirectoryEndpoint |-> <<>>, KeyVaultEndpoint |-> <<>>,
     KeyVaultDNSSuffix |-> <<>>, ServiceManagementEndpoint |-> <<>>]

EnvironmentFromName(name) ==
    IF name \in {"AzurePublicCloud", "AZUREPUBLICCLOUD"} THEN [env |-> PublicCloud, err |-> NilError]
    ELSE IF name \in {"AzureChinaCloud", "AZURECHINACLOUD"} THEN [env |-> ChinaCloud, err |-> NilError]
    ELSE [env |-> NoEnvironment,
          err |-> Err("There is no cloud environment matching the name " \o name)]

parseCloudEnvironment(cloudName) ==
    IF cloudName = "" THEN [env |-> PublicCloud, err |-> NilError]
    ELSE EnvironmentFromName(cloudName)

(***************************************************************************)
(* Vault URL.  A vault name is a sequence of one-character strings.        *)
(***************************************************************************)
Letters ==
    {"a", "b", "c", "d", "e", "f", "g", "h", "i", "j", "k", "l", "m",
     "n", "o", "p", "q", "r", "s", "t", "u", "v", "w", "x", "y", "z",
     "A", "B", "C", "D", "E", "F", "G", "H", "I", "J", "K", "L", "M",
     "N", "O", "P", "Q", "R", "S", "T", "U", "V", "W", "X", "Y", "Z"}
Digits == {"0", "1", "2", "3", "4", "5", "6", "7", "8", "9"}
VaultNameChars == {"-"} \cup Letters \cup Digits

isValid(vaultName) ==
    /\ Len(vaultName) >= 1
    /\ \A i \in 1..Len(vaultName) : vaultName[i] \in VaultNameChars

MinVaultNameLen == 3
MaxVaultNameLen == 24

NoURL == <<>>

\* getVaultURL rejecting names of the maximum length.
getVaultURL_MaxExcluded(azureEnvironment, vaultName) ==
    IF Len(vaultName) < MinVaultNameLen \/ Len(vaultName) >= MaxVaultNameLen
    THEN [vaultURL |-> NoURL,
          err |-> Err("invalid vault name, must be between 3 and 24 chars")]
    ELSE IF ~isValid(vaultName)
    THEN [vaultURL |-> NoURL,
          err |-> Err("invalid vault name, must match [-a-zA-Z0-9]{3,24}")]
    ELSE [vaultURL |-> <<"https://">> \o vaultName \o <<".">>
                           \o azureEnvironment.KeyVaultDNSSuffix \o <<"/">>,
          err |-> NilError]

getVaultURL(azureEnvironment, vaultName) ==
    IF Len(vaultName) < MinVaultNameLen \/ Len(vaultName) > MaxVaultNameLen
    THEN [vaultURL |-> NoURL,
          err |-> Err("invalid vault name, must be between 3 and 24 chars")]
    ELSE IF ~isValid(vaultName)
    THEN [vaultURL |-> NoURL,
          err |-> Err("invalid vault name, must match [-a-zA-Z0-9]{3,24}")]
    ELSE [vaultURL |-> <<"https://">> \o vaultName \o <<".">>
                           \o azureEnvironment.KeyVaultDNSSuffix \o <<"/">>,
          err |-> NilError]

(***************************************************************************)
(* Token source selection                                                  *)
(***************************************************************************)
NoToken == [absent |-> "token"]
UnparseableTenantIDs == {"%zz"}
MSIEndpoint == "http://169.254.169.254/metadata/identity/oauth2/token"

NewOAuthConfig(activeDirectoryEndpoint, tenantID) ==
    IF tenantID \in UnparseableTenantIDs
    THEN [oauthConfig |-> NoConfig, err |-> Err("invalid URL escape")]
    ELSE [oauthConfig |-> [AuthorityEndpoint |-> activeDirectoryEndpoint, TenantID |-> tenantID],
          err |-> NilError]

\* getServicePrincipalToken trying the client secret before the managed identity.
getServicePrincipalToken_ClientSecretFirst(config, env, resource) ==
    LET oauth == NewOAuthConfig(env.ActiveDirectoryEndpoint, config.tenantID)
    IN  IF oauth.err # NilError
        THEN [token |-> NoToken,
              err |-> Err("failed to create OAuth config, error: " \o ErrorText(oauth.err))]
        ELSE IF Len(config.aadClientID) > 0 /\ Len(config.aadClientSecret) > 0
        THEN [token |-> [strategy |-> "ServicePrincipal", oauthConfig |-> oauth.oauthConfig,
                         clientID |-> config.aadClientID, secret |-> config.aadClientSecret,
                         resource |-> resource],
              err |-> NilError]
        ELSE IF config.useManagedIdentity
        THEN IF Len(config.userAssignedIdentityID) > 0
             THEN [token |-> [strategy |-> "UserAssignedMSI", msiEndpoint |-> MSIEndpoint,
                              resource |-> env.ServiceManagementEndpoint,
                              userAssignedID |-> config.userAssignedIdentityID],
                   err |-> NilError]
             ELSE [token |-> [strategy |-> "SystemAssignedMSI", msiEndpoint |-> MSIEndpoint,
                              resource |-> resource],
                   err |-> NilError]
        ELSE [token |-> NoToken, err |-> Err("no credentials provided for accessing keyvault")]

getServicePrincipalToken(config, env, resource) ==
    LET oauth == NewOAuthConfig(env.ActiveDirectoryEndpoint, config.tenantID)
    IN  IF oauth.err # NilError
        THEN [token |-> NoToken,
              err |-> Err("failed to create OAuth config, error: " \o ErrorText(oauth.err))]
        ELSE IF config.useManagedIdentity
        THEN IF Len(config.userAssignedIdentityID) > 0
             THEN [token |-> [strategy |-> "UserAssignedMSI", msiEndpoint |-> MSIEndpoint,
                              resource |-> env.ServiceManagementEndpoint,
                              userAssignedID |-> config.userAssignedIdentityID],
                   err |-> NilError]
             ELSE [token |-> [strategy |-> "SystemAssignedMSI", msiEndpoint |-> MSIEndpoint,
                              resource |-> resource],
                   err |-> NilError]
        ELSE IF Len(config.aadClientID) > 0 /\ Len(config.aadClientSecret) > 0
        THEN [token |-> [strategy |-> "ServicePrincipal", oauthConfig |-> oauth.oauthConfig,
                         clientID |-> config.aadClientID, secret |-> config.aadClientSecret,
                         resource |-> resource],
              err |-> NilError]
        ELSE [token |-> NoToken, err |-> Err("no credentials provided for accessing keyvault")]

getKeyvaultToken(config, env) ==
    LET kvEndPoint0 == env.KeyVaultEndpoint
        kvEndPoint == IF kvEndPoint0[Len(kvEndPoint0)] = "/"
                      THEN SubSeq(kvEndPoint0, 1, Len(kvEndPoint0) - 1)
                      ELSE kvEndPoint0
        spt == getServicePrincipalToken(config, env, kvEndPoint)
    IN  IF spt.err # NilError
        THEN [authorizer |-> NoToken, err |-> spt.err]
        ELSE [authorizer |-> spt.token, err |-> NilError]

\* NewSigner validating the vault name before resolving the cloud environment.
NewSigner_VaultBeforeCloud(creds, vaultName) ==
    LET c == getConfigFromSecretData(creds)
        e == parseCloudEnvironment(c.config.cloud)
        v == getVaultURL(e.env, vaultName)
        a == getKeyvaultToken(c.config, e.env)
    IN  IF c.err # NilError THEN [signer |-> NoSigner, err |-> c.err]
        ELSE IF v.err # NilError THEN [signer |-> NoSigner, err |-> v.err]
        ELSE IF e.err # NilError THEN [signer |-> NoSigner, err |-> e.err]
        ELSE IF a.err # NilError THEN [signer |-> NoSigner, err |-> a.err]
        ELSE [signer |-> [authorizer |-> a.authorizer, vaultURL |-> v.vaultURL], err |-> NilError]

\* The later of the two NewSigner versions in the sources, the one Reconcile
\* is written against (auth config, environment, vault URL, token).
NewSigner(creds, vaultName) ==
    LET c == getConfigFromSecretData(creds)
        e == parseCloudEnvironment(c.config.cloud)
        v == getVaultURL(e.env, vaultName)
        a == getKeyvaultToken(c.config, e.env)
    IN  IF c.err # NilError THEN [signer |-> NoSigner, err |-> c.err]
        ELSE IF e.err # NilError THEN [signer |-> NoSigner, err |-> e.err]
        ELSE IF v.err # NilError THEN [signer |-> NoSigner, err |-> v.err]
        ELSE IF a.err # NilError THEN [signer |-> NoSigner, err |-> a.err]
        ELSE [signer |-> [authorizer |-> a.authorizer, vaultURL |-> v.vaultURL], err |-> NilError]

(***************************************************************************)
(* caSigner.Sign.  csrValid says whether the request bytes decode as a     *)
(* PKCS#10 request; caOK is the CA backend's answer to CreateCertificate.  *)
(* The second component says whether CreateCertificate was called.         *)
(***************************************************************************)
CABytes == "certificate-from-CA"

CreateCertificate(vaultURL, name, issuerName, caOK) ==
    IF caOK THEN [bundle |-> CABytes, err |-> NilError]
    ELSE [bundle |-> NoBytes, err |-> Err("backend rejected the request")]

Sign(signer, csrValid, name, issuerName, caOK) ==
    LET created == CreateCertificate(signer.vaultURL, name, issuerName, caOK)
    IN  IF ~csrValid
        THEN [signed |-> NoBytes, called |-> FALSE, created |-> FALSE,
              err |-> Err("failed to decode CSR: error decoding certificate request PEM block")]
        ELSE IF created.err # NilError
        THEN [signed |-> NoBytes, called |-> TRUE, created |-> FALSE,
              err |-> Err("failed to create certificate " \o name \o ": " \o ErrorText(created.err))]
        ELSE [signed |-> NoBytes, called |-> TRUE, created |-> TRUE, err |-> NilError]

(***************************************************************************)
(* State                                                                   *)
(***************************************************************************)
VARIABLES
    reconciler,   \* the fields of the CertificateRequestReconciler
    crs,          \* resource store: CertificateRequests by request id
    issuers,      \* resource store: Issuers and ClusterIssuers by key
    secrets,      \* resource store: Secrets by namespace and name
    caCerts,      \* CA backend: certificates created, by certificate name
    now,          \* the wall clock
    last          \* log of the most recent Reconcile invocation

vars == <<reconciler, crs, issuers, secrets, caCerts, now, last>>

ReqIds == {"r1", "r2"}

RequestNamespace == "ns1"
ClusterNamespace == "cluster-ns"

\* The namespace main is started with (flag or in-cluster namespace, never empty).
clusterResourceNamespace == ClusterNamespace

\* The reconciler as main builds it: only Client and Scheme are set.
MainWiring == [Clock |-> "nil", CheckApprovedCondition |-> FALSE, ClusterResourceNamespace |-> ""]

\* The reconciler with every field set, as a caller of the package can build it.
FullWirings ==
    {[Clock |-> "set", CheckApprovedCondition |-> gate, ClusterResourceNamespace |-> ClusterNamespace] :
        gate \in BOOLEAN}

Wirings == {MainWiring} \cup FullWirings

RegisteredKinds == IssuerKinds

RequestSpecs ==
    {[Group |-> ExpectedGroup, Kind |-> "Issuer", csrValid |-> TRUE],
     [Group |-> ExpectedGroup, Kind |-> "Issuer", csrValid |-> FALSE],
     [Group |-> ExpectedGroup, Kind |-> "ClusterIssuer", csrValid |-> TRUE],
     [Group |-> ExpectedGroup, Kind |-> "UnknownKind", csrValid |-> TRUE],
     [Group |-> ForeignGroup, Kind |-> "Issuer", csrValid |-> TRUE]}

NewRequest(id, spec) ==
    [Name |-> id, Namespace |-> RequestNamespace, Group |-> spec.Group, Kind |-> spec.Kind,
     IssuerName |-> "iss", csrValid |-> spec.csrValid,
     Conditions |-> <<>>, FailureTime |-> NoTime, Certificate |-> NoBytes]

GoodVault == <<"m", "y", "-", "v", "a", "u", "l", "t", "1">>
ShortVault == <<"a", "b">>

ServicePrincipalSecret ==
    [k \in {tenantIDKey, aadClientIDKey, aadClientSecretKey} |->
        IF k = tenantIDKey THEN "t" ELSE IF k = aadClientIDKey THEN "c" ELSE "s"]
BadBoolSecret ==
    [k \in {useManagedIdentityKey, aadClientIDKey, aadClientSecretKey} |->
        IF k = useManagedIdentityKey THEN "yes" ELSE IF k = aadClientIDKey THEN "c" ELSE "s"]
NoCredentialsSecret ==
    [k \in {cloudKey, tenantIDKey} |-> IF k = cloudKey THEN "AzureChinaCloud" ELSE "t"]
BadCloudSecret ==
    [k \in {cloudKey, tenantIDKey, aadClientIDKey, aadClientSecretKey} |->
        IF k = cloudKey THEN "NoSuchCloud"
        ELSE IF k = tenantIDKey THEN "t" ELSE IF k = aadClientIDKey THEN "c" ELSE "s"]
EmptyBoolSecret ==
    [k \in {useManagedIdentityKey, aadClientIDKey, aadClientSecretKey} |->
        IF k = useManagedIdentityKey THEN "" ELSE IF k = aadClientIDKey THEN "c" ELSE "s"]

\* Issuer spec and secret content the stores are populated with.
Setups ==
    {[KeyvaultName |-> GoodVault, data |-> ServicePrincipalSecret],
     [KeyvaultName |-> ShortVault, data |-> ServicePrincipalSecret],
     [KeyvaultName |-> GoodVault, data |-> BadBoolSecret],
     [KeyvaultName |-> GoodVault, data |-> NoCredentialsSecret],
     [KeyvaultName |-> GoodVault, data |-> BadCloudSecret],
     [KeyvaultName |-> GoodVault, data |-> EmptyBoolSecret]}

IssuerKeys ==
    {[Kind |-> "Issuer", Namespace |-> RequestNamespace, Name |-> "iss"],
     [Kind |-> "ClusterIssuer", Namespace |-> "", Name |-> "iss"]}

SecretKeys ==
    {[Namespace |-> RequestNamespace, Name |-> "auth"],
     [Namespace |-> ClusterNamespace, Name |-> "auth"]}

NewIssuer(key, setup) ==
    [Kind |-> key.Kind,
     Spec |-> [AuthSecretName |-> "auth", KeyvaultName |-> setup.KeyvaultName, IssuerName |-> "ca-issuer"],
     Status |-> [Conditions |-> <<>>]]

NoCall ==
    [req |-> "", path |-> "none", pre |-> NoCR, attempted |-> NoCR, post |-> NoCR,
     result |-> [Requeue |-> FALSE, RequeueAfter |-> 0], err |-> NilError, panicked |-> FALSE, updates |-> 0, updateOK |-> FALSE,
     issuerGets |-> <<>>, secretGets |-> <<>>, issuer |-> NoIssuer, secretData |-> NoSecret,
     signer |-> NoSigner, caCalls |-> 0, caCreated |-> 0, clock |-> NoTime]

\* The populations the model starts from: every wiring with every request
\* over a working issuer and secret, and the wirings with a namespaced
\* request over each broken issuer or secret.
Scenarios ==
    {[wiring |-> w, spec |-> sp, setup |-> su] : w \in Wirings, sp \in RequestSpecs, su \in Setups}

Populated(sc) ==
    \/ sc.setup.KeyvaultName = GoodVault /\ sc.setup.data = ServicePrincipalSecret
    \/ /\ sc.spec = [Group |-> ExpectedGroup, Kind |-> "Issuer", csrValid |-> TRUE]
       /\ sc.wiring.Clock = "set"
       /\ ~sc.wiring.CheckApprovedCondition

Init ==
    /\ \E sc \in {x \in Scenarios : Populated(x)} :
          /\ reconciler = sc.wiring
          /\ crs = [id \in ReqIds |-> IF id = "r1" THEN NewRequest(id, sc.spec) ELSE NoCR]
          /\ issuers = [key \in IssuerKeys |-> NewIssuer(key, sc.setup)]
          /\ secrets = [key \in SecretKeys |-> sc.setup.data]
    /\ caCerts = [id \in ReqIds |-> 0]
    /\ now = 1
    /\ last = NoCall

(***************************************************************************)
(* CertificateRequestReconciler.Reconcile                                  *)
(*                                                                         *)
(* An outcome is what the body of Reconcile leaves behind when it returns  *)
(* (or panics): the exit taken, the local copy of the request, the error   *)
(* it returns, and the outbound calls it made.                             *)
(***************************************************************************)
EmptyResult == [Requeue |-> FALSE, RequeueAfter |-> 0]

Outcome(path, cr, err) ==
    [path |-> path, cr |-> cr, result |-> EmptyResult, err |-> err, panicked |-> FALSE,
     updates |-> 0, updateOK |-> FALSE,
     issuerGets |-> <<>>, secretGets |-> <<>>, issuer |-> NoIssuer, secretData |-> NoSecret,
     signer |-> NoSigner,
     caCalls |-> 0, caCreated |-> 0]

IssuerLookupKey(cr) ==
    [Kind |-> cr.Kind,
     Namespace |-> IF cr.Kind = "Issuer" THEN cr.Namespace ELSE "",
     Name |-> cr.IssuerName]

SecretNamespace(cr) ==
    IF cr.Kind = "Issuer" THEN cr.Namespace ELSE reconciler.ClusterResourceNamespace

\* Lines 189-211: secret fetch, signer build, Sign, Issued.
SignWithIssuer(cr, in, issuerName, issuer, issuerSpec) ==
    LET secretName == [Namespace |-> SecretNamespace(cr), Name |-> issuerSpec.AuthSecretName]
        base == [Outcome("", cr, NilError) EXCEPT
                    !.issuerGets = <<issuerName>>, !.issuer = issuer,
                    !.secretGets = <<secretName>>]
        fetched == [base EXCEPT !.secretData = secrets[secretName]]
        built == NewSigner(secrets[secretName], issuerSpec.KeyvaultName)
        sg == Sign(built.signer, cr.csrValid, cr.Name, issuerSpec.IssuerName, in.fail # "ca")
    IN  IF in.fail = "secretGet" \/ secretName \notin DOMAIN secrets
        THEN [base EXCEPT !.path = "getSecretErr",
                !.err = Err(errGetAuthSecret \o ", secret name: " \o secretName.Namespace \o "/"
                            \o secretName.Name \o ", reason: "
                            \o (IF in.fail = "secretGet" THEN "api error" ELSE "not found"))]
        ELSE IF built.err # NilError
        THEN [fetched EXCEPT !.path = "buildErr",
                !.err = Err("failed to get issuer client for " \o issuerSpec.IssuerName \o ": "
                            \o ErrorText(built.err))]
        ELSE IF sg.err # NilError
        THEN [fetched EXCEPT !.path = "signErr", !.signer = built.signer,
                !.caCalls = IF sg.called THEN 1 ELSE 0,
                !.err = Err(errSignerSign \o ": " \o ErrorText(sg.err))]
        ELSE [fetched EXCEPT !.path = "issued", !.signer = built.signer,
                !.caCalls = 1, !.caCreated = 1,
                !.cr = setReadyCondition([cr EXCEPT !.Certificate = sg.signed],
                                         ConditionTrue, ReasonIssued, SignedMessage)]

\* ResolveIssuer with an unrecognized kind treated as retryable.
ResolveIssuer_KindRetryable(cr, in) ==
    LET issuerName == IssuerLookupKey(cr)
        ss == GetSpecAndStatus(issuers[issuerName])
    IN  IF cr.Kind \notin IssuerKinds
        THEN Outcome("unrecognizedKind", cr,
                     Err(errIssuerRef \o ": no kind " \o cr.Kind \o " is registered"))
        ELSE IF in.fail = "issuerGet" \/ issuerName \notin DOMAIN issuers
        THEN [Outcome("getIssuerErr", cr, Err(errGetIssuer \o ": api error"))
                EXCEPT !.issuerGets = <<issuerName>>]
        ELSE IF ~IsReady(ss.Status)
        THEN [Outcome("issuerNotReady", cr, Err(errIssuerNotReady))
                EXCEPT !.issuerGets = <<issuerName>>, !.issuer = issuers[issuerName]]
        ELSE SignWithIssuer(cr, in, issuerName, issuers[issuerName], ss.Spec)

\* ResolveIssuer without the issuer readiness check.
ResolveIssuer_NoReadyCheck(cr, in) ==
    LET issuerName == IssuerLookupKey(cr)
        ss == GetSpecAndStatus(issuers[issuerName])
    IN  IF cr.Kind \notin RegisteredKinds
        THEN Outcome("unrecognizedKind",
                     setReadyCondition(cr, ConditionFalse, ReasonFailed,
                        errIssuerRef \o ": no kind " \o cr.Kind \o " is registered"),
                     NilError)
        ELSE IF cr.Kind \notin IssuerKinds
        THEN Outcome("unhandledKind",
                     setReadyCondition(cr, ConditionFalse, ReasonFailed,
                        "unexpected issuer type: " \o cr.Kind),
                     NilError)
        ELSE IF in.fail = "issuerGet" \/ issuerName \notin DOMAIN issuers
        THEN [Outcome("getIssuerErr", cr,
                      Err(errGetIssuer \o ": "
                          \o (IF in.fail = "issuerGet" THEN "api error" ELSE "not found")))
                EXCEPT !.issuerGets = <<issuerName>>]
        ELSE SignWithIssuer(cr, in, issuerName, issuers[issuerName], ss.Spec)

\* ResolveIssuer taking every issuer for not ready.
ResolveIssuer_NeverReady(cr, in) ==
    LET issuerName == IssuerLookupKey(cr)
        ss == GetSpecAndStatus(issuers[issuerName])
    IN  IF cr.Kind \notin RegisteredKinds
        THEN Outcome("unrecognizedKind",
                     setReadyCondition(cr, ConditionFalse, ReasonFailed,
                        errIssuerRef \o ": no kind " \o cr.Kind \o " is registered"),
                     NilError)
        ELSE IF cr.Kind \notin IssuerKinds
        THEN Outcome("unhandledKind",
                     setReadyCondition(cr, ConditionFalse, ReasonFailed,
                        "unexpected issuer type: " \o cr.Kind),
                     NilError)
        ELSE IF in.fail = "issuerGet" \/ issuerName \notin DOMAIN issuers
        THEN [Outcome("getIssuerErr", cr,
                      Err(errGetIssuer \o ": "
                          \o (IF in.fail = "issuerGet" THEN "api error" ELSE "not found")))
                EXCEPT !.issuerGets = <<issuerName>>]
        ELSE [Outcome("issuerNotReady", cr, Err(errIssuerNotReady))
                EXCEPT !.issuerGets = <<issuerName>>, !.issuer = issuers[issuerName]]

\* Lines 143-187: issuer kind, issuer fetch, spec and status, issuer readiness.
ResolveIssuer(cr, in) ==
    LET issuerName == IssuerLookupKey(cr)
        ss == GetSpecAndStatus(issuers[issuerName])
    IN  IF cr.Kind \notin RegisteredKinds
        THEN Outcome("unrecognizedKind",
                     setReadyCondition(cr, ConditionFalse, ReasonFailed,
                        errIssuerRef \o ": no kind " \o cr.Kind \o " is registered"),
                     NilError)
        ELSE IF cr.Kind \notin IssuerKinds
        THEN Outcome("unhandledKind",
                     setReadyCondition(cr, ConditionFalse, ReasonFailed,
                        "unexpected issuer type: " \o cr.Kind),
                     NilError)
        ELSE IF in.fail = "issuerGet" \/ issuerName \notin DOMAIN issuers
        THEN [Outcome("getIssuerErr", cr,
                      Err(errGetIssuer \o ": "
                          \o (IF in.fail = "issuerGet" THEN "api error" ELSE "not found")))
                EXCEPT !.issuerGets = <<issuerName>>]
        ELSE IF ss.err # NilError
        THEN [Outcome("specStatusErr",
                      setReadyCondition(cr, ConditionFalse, ReasonFailed, ErrorText(ss.err)),
                      NilError)
                EXCEPT !.issuerGets = <<issuerName>>, !.issuer = issuers[issuerName]]
        ELSE IF ~IsReady(ss.Status)
        THEN [Outcome("issuerNotReady", cr, Err(errIssuerNotReady))
                EXCEPT !.issuerGets = <<issuerName>>, !.issuer = issuers[issuerName]]
        ELSE SignWithIssuer(cr, in, issuerName, issuers[issuerName], ss.Spec)

\* AfterDefer without the approval gate.
AfterDefer_NoApprovalGate(cr, in) ==
    IF CertificateRequestIsDenied(cr)
    THEN IF cr.FailureTime = NoTime /\ reconciler.Clock = "nil"
         THEN [Outcome("denied", cr, NilError) EXCEPT !.panicked = TRUE]
         ELSE Outcome("denied",
                      setReadyCondition([cr EXCEPT !.FailureTime =
                                            IF @ = NoTime THEN now ELSE @],
                                        ConditionFalse, ReasonDenied, DeniedMessage),
                      NilError)
    ELSE IF GetCertificateRequestCondition(cr, ConditionReady) = NoCondition
    THEN Outcome("initializing",
                 setReadyCondition(cr, ConditionFalse, ReasonPending, InitializingMessage),
                 NilError)
    ELSE ResolveIssuer(cr, in)

\* AfterDefer that initializes the Ready condition and goes on in the same call.
AfterDefer_InitFallsThrough(cr, in) ==
    IF CertificateRequestIsDenied(cr)
    THEN IF cr.FailureTime = NoTime /\ reconciler.Clock = "nil"
         THEN [Outcome("denied", cr, NilError) EXCEPT !.panicked = TRUE]
         ELSE Outcome("denied",
                      setReadyCondition([cr EXCEPT !.FailureTime =
                                            IF @ = NoTime THEN now ELSE @],
                                        ConditionFalse, ReasonDenied, DeniedMessage),
                      NilError)
    ELSE IF reconciler.CheckApprovedCondition /\ ~CertificateRequestIsApproved(cr)
    THEN Outcome("unapproved", cr, NilError)
    ELSE IF GetCertificateRequestCondition(cr, ConditionReady) = NoCondition
    THEN ResolveIssuer(setReadyCondition(cr, ConditionFalse, ReasonPending, InitializingMessage), in)
    ELSE ResolveIssuer(cr, in)

\* Lines 113-141: the denied, approval and missing-Ready gates.
\* AfterDefer without the denied gate.
AfterDefer_NoDeniedGate(cr, in) ==
    IF reconciler.CheckApprovedCondition /\ ~CertificateRequestIsApproved(cr)
    THEN Outcome("unapproved", cr, NilError)
    ELSE IF GetCertificateRequestCondition(cr, ConditionReady) = NoCondition
    THEN Outcome("initializing",
                 setReadyCondition(cr, ConditionFalse, ReasonPending, InitializingMessage),
                 NilError)
    ELSE ResolveIssuer(cr, in)

AfterDefer(cr, in) ==
    IF CertificateRequestIsDenied(cr)
    THEN IF cr.FailureTime = NoTime
         THEN IF reconciler.Clock = "nil"
              THEN [Outcome("denied", cr, NilError) EXCEPT !.panicked = TRUE]
              ELSE Outcome("denied",
                           setReadyCondition([cr EXCEPT !.FailureTime = now],
                                             ConditionFalse, ReasonDenied, DeniedMessage),
                           NilError)
         ELSE Outcome("denied",
                      setReadyCondition(cr, ConditionFalse, ReasonDenied, DeniedMessage),
                      NilError)
    ELSE IF reconciler.CheckApprovedCondition /\ ~CertificateRequestIsApproved(cr)
    THEN Outcome("unapproved", cr, NilError)
    ELSE IF GetCertificateRequestCondition(cr, ConditionReady) = NoCondition
    THEN Outcome("initializing",
                 setReadyCondition(cr, ConditionFalse, ReasonPending, InitializingMessage),
                 NilError)
    ELSE ResolveIssuer(cr, in)

\* Deferred that gives up on the update when the body returned an error.
Deferred_NoUpdateOnError(out, in) ==
    IF out.err # NilError THEN out
    ELSE [out EXCEPT !.updates = @ + 1,
                     !.updateOK = in.updateOK,
                     !.err = IF in.updateOK THEN out.err ELSE Err("status update failed")]

\* Deferred that persists the status without recording the returned error.
Deferred_NoPending(out, in) ==
    [out EXCEPT !.updates = @ + 1,
                !.updateOK = in.updateOK,
                !.err = IF in.updateOK THEN out.err
                        ELSE NewAggregate(out.err, Err("status update failed"))]

\* Lines 102-111: the deferred status update.  It runs on every exit of
\* AfterDefer, a panic included; the store takes the local copy's status
\* when the update succeeds.
UpdateErrText == "status update failed"

Deferred(out, in) ==
    LET cr1 == IF out.err # NilError
               THEN setReadyCondition(out.cr, ConditionFalse, ReasonPending, ErrorText(out.err))
               ELSE out.cr
        updateErr == IF in.updateOK THEN NilError ELSE Err(UpdateErrText)
    IN  [out EXCEPT !.cr = cr1,
                    !.updates = @ + 1,
                    !.updateOK = (updateErr = NilError),
                    !.err = IF updateErr # NilError THEN NewAggregate(out.err, updateErr)
                            ELSE out.err,
                    !.result = IF updateErr # NilError THEN EmptyResult ELSE out.result]

\* BeforeDefer without the foreign-group gate.
BeforeDefer_NoGroupGate(id, in) ==
    IF in.fail = "get" THEN Outcome("getError", NoCR, Err("unexpected get error: api error"))
    ELSE IF crs[id] = NoCR THEN Outcome("notFound", NoCR, NilError)
    ELSE IF CertificateRequestHasCondition(crs[id], ConditionReady, ConditionTrue)
    THEN Outcome("ready", crs[id], NilError)
    ELSE Outcome("", crs[id], NilError)

\* BeforeDefer without the Ready gate.
BeforeDefer_NoReadyGate(id, in) ==
    IF in.fail = "get" THEN Outcome("getError", NoCR, Err("unexpected get error: api error"))
    ELSE IF crs[id] = NoCR THEN Outcome("notFound", NoCR, NilError)
    ELSE IF crs[id].Group # ExpectedGroup THEN Outcome("foreignGroup", crs[id], NilError)
    ELSE Outcome("", crs[id], NilError)

\* Lines 62-88: request fetch, foreign-group gate, Ready gate; these return
\* before the deferred update is registered.
BeforeDefer(id, in) ==
    IF in.fail = "get" THEN Outcome("getError", NoCR, Err("unexpected get error: api error"))
    ELSE IF crs[id] = NoCR THEN Outcome("notFound", NoCR, NilError)
    ELSE IF crs[id].Group # ExpectedGroup THEN Outcome("foreignGroup", crs[id], NilError)
    ELSE IF CertificateRequestHasCondition(crs[id], ConditionReady, ConditionTrue)
    THEN Outcome("ready", crs[id], NilError)
    ELSE Outcome("", crs[id], NilError)

\* What the collaborators answer during one invocation: which outbound call
\* fails first, if any, and whether the status update is accepted.  A call
\* that the invocation does not reach is not made, whatever `fail` says.
Inputs ==
    {in \in [fail : {"none", "get", "issuerGet", "secretGet", "ca"}, updateOK : BOOLEAN] :
        in.fail = "get" => in.updateOK}

\* One invocation.  A panic leaves Reconcile without a result or an error;
\* the log then keeps only that it panicked.
ReconcileWith(id, in) ==
    \E out \in {IF BeforeDefer(id, in).path # "" THEN BeforeDefer(id, in)
                ELSE Deferred(AfterDefer(crs[id], in), in)} :
        LET stored == IF out.updateOK THEN out.cr ELSE crs[id]
        IN  /\ caCerts[id] + out.caCreated <= MaxSigns
            /\ crs' = [crs EXCEPT ![id] = stored]
            /\ caCerts' = [caCerts EXCEPT ![id] = @ + out.caCreated]
            /\ last' = [req |-> id, path |-> out.path, pre |-> crs[id],
                        attempted |-> out.cr, post |-> stored,
                        result |-> out.result,
                        err |-> IF out.panicked THEN NilError ELSE out.err,
                        panicked |-> out.panicked,
                        updates |-> out.updates, updateOK |-> out.updateOK,
                        issuerGets |-> out.issuerGets, secretGets |-> out.secretGets,
                        issuer |-> out.issuer, secretData |-> out.secretData,
                        signer |-> out.signer,
                        caCalls |-> out.caCalls, caCreated |-> out.caCreated,
                        clock |-> now]
            /\ UNCHANGED <<reconciler, issuers, secrets, now>>

Reconcile(id) == \E in \in Inputs : ReconcileWith(id, in)

(***************************************************************************)
(* The environment: approval controller, issuer status, clock              *)
(***************************************************************************)
Approve(id) ==
    /\ crs[id] # NoCR
    /\ ~CertificateRequestIsApproved(crs[id])
    /\ ~CertificateRequestIsDenied(crs[id])
    /\ crs' = [crs EXCEPT ![id].Conditions =
                  Append(@, [Type |-> ConditionApproved, Status |-> ConditionTrue,
                             Reason |-> "policy", Message |-> "approved"])]
    /\ UNCHANGED <<reconciler, issuers, secrets, caCerts, now, last>>

Deny(id) ==
    /\ crs[id] # NoCR
    /\ ~CertificateRequestIsApproved(crs[id])
    /\ ~CertificateRequestIsDenied(crs[id])
    /\ crs' = [crs EXCEPT ![id].Conditions =
                  Append(@, [Type |-> ConditionDenied, Status |-> ConditionTrue,
                             Reason |-> "policy", Message |-> "denied"])]
    /\ UNCHANGED <<reconciler, issuers, secrets, caCerts, now, last>>

\* Only the status of an issuer that some request of this group refers to is
\* followed; the status of any other issuer is never read.
Referenced(key) ==
    \E id \in ReqIds :
        /\ crs[id] # NoCR
        /\ crs[id].Group = ExpectedGroup
        /\ IssuerLookupKey(crs[id]) = key

IssuerStatusChange(key) ==
    \E st \in {ConditionTrue, ConditionFalse} :
        /\ Referenced(key)
        /\ issuers' = [issuers EXCEPT ![key].Status =
                          SetReadyCondition(@, st, "Checked", "", now)]
        /\ UNCHANGED <<reconciler, crs, secrets, caCerts, now, last>>

Tick ==
    /\ now < MaxClock
    /\ now' = now + 1
    /\ UNCHANGED <<reconciler, crs, issuers, secrets, caCerts, last>>

Next ==
    \/ \E id \in ReqIds : Reconcile(id)
    \/ \E id \in ReqIds : Approve(id)
    \/ \E id \in ReqIds : Deny(id)
    \/ \E key \in IssuerKeys : IssuerStatusChange(key)
    \/ Tick

Spec == Init /\ [][Next]_vars

(***************************************************************************)
(* Vocabulary of the properties.  They are stated on the log of the most   *)
(* recent invocation: what it read (pre), what it submitted to the status  *)
(* update (attempted), what the store holds afterwards (post), what it     *)
(* returned and which outbound calls it made.                              *)
(***************************************************************************)
Called == last.path # "none"

\* The invocation read the request from the store.
Fetched == last.path \notin {"none", "getError", "notFound"}

ReadyOf(cr) == GetCertificateRequestCondition(cr, ConditionReady)

IsReadyTrue(cr) == CertificateRequestHasCondition(cr, ConditionReady, ConditionTrue)

ReadyIs(cr, status, reason) ==
    /\ ReadyOf(cr) # NoCondition
    /\ ReadyOf(cr).Status = status
    /\ ReadyOf(cr).Reason = reason

\* The conditions of a request other than Ready, in list order.
OtherConditions(cr) == SelectSeq(cr.Conditions, LAMBDA c : c.Type # ConditionReady)

NoOutboundCalls ==
    /\ last.issuerGets = <<>>
    /\ last.secretGets = <<>>
    /\ last.caCalls = 0
    /\ last.caCreated = 0

\* Past the foreign-group and Ready gates: the deferred update is registered.
PastReadyGate ==
    /\ Fetched
    /\ last.pre.Group = ExpectedGroup
    /\ ~IsReadyTrue(last.pre)

\* Past the denied and approval gates as well.
PastApprovalGate ==
    /\ PastReadyGate
    /\ ~CertificateRequestIsDenied(last.pre)
    /\ (reconciler.CheckApprovedCondition => CertificateRequestIsApproved(last.pre))

\* Past all five gates.
PastGates == PastApprovalGate /\ ReadyOf(last.pre) # NoCondition

RetryablePaths == {"getIssuerErr", "issuerNotReady", "getSecretErr", "buildErr", "signErr"}
TerminalFailurePaths == {"unrecognizedKind", "unhandledKind", "specStatusErr"}

(***************************************************************************)
(* C1.  As stated: every exit of Reconcile, the request-not-found,         *)
(* foreign-group and already-Ready exits included, makes exactly one       *)
(* status-update attempt.                                                  *)
(***************************************************************************)
C1_EveryExitUpdatesOnce == Called => last.updates = 1

\* C1, amended: an invocation makes exactly one status-update attempt when it
\* gets past the foreign-group and Ready gates (whatever exit it then takes,
\* a failure or a panic included), and none when it leaves before: on a
\* failed or empty fetch, a foreign group, or a request that is Ready.
C1_UpdateOnceAfterReadyGate ==
    Called => last.updates = (IF PastReadyGate THEN 1 ELSE 0)

C1_Witness ==
    /\ PastReadyGate
    /\ last.path \in RetryablePaths
    /\ last.updates = 1

(***************************************************************************)
(* C2.  Whenever the status update fails, Reconcile returns a non-nil      *)
(* error and an empty result, on every path that reaches the update; when  *)
(* an operational error came first, the returned error holds both that     *)
(* error and the update error.                                             *)
(***************************************************************************)
C2_UpdateFailureIsReturned ==
    (last.updates = 1 /\ ~last.updateOK) =>
        /\ ~last.panicked
        /\ last.err # NilError
        /\ last.result = EmptyResult
        /\ last.err[Len(last.err)] = UpdateErrText
        /\ (last.path \in RetryablePaths =>
                /\ Len(last.err) = 2
                /\ last.err[1] = ReadyOf(last.attempted).Message)

(***************************************************************************)
(* C3.  For an invocation past the gates whose status update succeeds:     *)
(* issuer fetch failure, issuer not Ready, secret fetch failure, signer    *)
(* build failure and sign failure return an error and leave Ready at       *)
(* False/Pending with the returned error's text as message; an             *)
(* unrecognized kind and a failed spec/status extraction return no error   *)
(* and leave Ready at False/Failed; no other exit returns an error.        *)
(***************************************************************************)
C3_OutcomeClassification ==
    (PastGates /\ last.updateOK) =>
        /\ (last.path \in RetryablePaths =>
                /\ last.err # NilError
                /\ ReadyOf(last.post) =
                      [Type |-> ConditionReady, Status |-> ConditionFalse,
                       Reason |-> ReasonPending, Message |-> ErrorText(last.err)])
        /\ (last.path \in TerminalFailurePaths =>
                /\ last.err = NilError
                /\ ReadyIs(last.post, ConditionFalse, ReasonFailed))
        /\ (last.path \notin RetryablePaths => last.err = NilError)
        /\ (last.pre.Kind \notin IssuerKinds => last.path \in TerminalFailurePaths)
        /\ (last.issuer # NoIssuer /\ ~IsReady(last.issuer.Status) => last.path = "issuerNotReady")
        /\ (last.caCalls = 1 /\ last.caCreated = 0 => last.path = "signErr")
        /\ (last.caCreated = 1 => last.path = "issued")

C3_Witness ==
    /\ PastGates
    /\ last.updateOK
    /\ last.path = "signErr"
    /\ ReadyIs(last.post, ConditionFalse, ReasonPending)

(***************************************************************************)
(* C4.  When the issuer is Ready, the secret is fetched, the signer is     *)
(* built and the CA creates the certificate, Reconcile stores the          *)
(* certificate bytes the CA returned (non-empty) in the request's status,  *)
(* sets Ready to True/Issued and returns no error.                         *)
(***************************************************************************)
C4_IssuedStoresCertificate ==
    (last.caCreated = 1 /\ last.updateOK) =>
        /\ last.post.Certificate # NoBytes
        /\ last.post.Certificate = CABytes
        /\ ReadyIs(last.post, ConditionTrue, ReasonIssued)
        /\ last.err = NilError

(***************************************************************************)
(* C5.  A request of a foreign group is left alone, whatever its other     *)
(* fields: no condition added or changed, failureTime and certificate      *)
(* unchanged, no issuer, secret or CA call, no error.                      *)
(***************************************************************************)
C5_ForeignGroupNoOp ==
    (Fetched /\ last.pre.Group # ExpectedGroup) =>
        /\ last.post = last.pre
        /\ last.attempted = last.pre
        /\ NoOutboundCalls
        /\ last.err = NilError
        /\ ~last.panicked

C5_Witness ==
    /\ Fetched
    /\ last.pre.Group # ExpectedGroup
    /\ CertificateRequestIsDenied(last.pre)
    /\ ReadyOf(last.post) = NoCondition

(***************************************************************************)
(* C6.  Ready=True is absorbing: an invocation that reads a request of the *)
(* expected group with Ready=True changes nothing, calls nothing and       *)
(* returns no error, also when the request has been denied since; and no   *)
(* step at all changes the Ready condition, the certificate or the         *)
(* failureTime of such a request.                                          *)
(***************************************************************************)
C6_ReadyInvocationNoOp ==
    (Fetched /\ last.pre.Group = ExpectedGroup /\ IsReadyTrue(last.pre)) =>
        /\ last.post = last.pre
        /\ last.attempted = last.pre
        /\ NoOutboundCalls
        /\ last.err = NilError
        /\ ~last.panicked

C6_ReadyStatusKept ==
    \A id \in ReqIds :
        (crs[id] # NoCR /\ crs[id].Group = ExpectedGroup /\ IsReadyTrue(crs[id])) =>
            /\ ReadyOf(crs'[id]) = ReadyOf(crs[id])
            /\ crs'[id].Certificate = crs[id].Certificate
            /\ crs'[id].FailureTime = crs[id].FailureTime

C6_ReadyTrueAbsorbing == [](C6_ReadyInvocationNoOp) /\ [][C6_ReadyStatusKept]_vars

C6_Witness ==
    /\ Fetched
    /\ last.pre.Group = ExpectedGroup
    /\ IsReadyTrue(last.pre)
    /\ CertificateRequestIsDenied(last.pre)
    /\ last.post = last.pre

(***************************************************************************)
(* C7.  Reconciling a denied request (expected group, not Ready=True) sets *)
(* failureTime to the clock's time only if it is unset, sets Ready to      *)
(* False/Denied and returns no error.                                      *)
(***************************************************************************)
C7_DeniedMarksFailureOnce ==
    (PastReadyGate /\ CertificateRequestIsDenied(last.pre)) =>
        /\ ~last.panicked
        /\ last.attempted.FailureTime =
              (IF last.pre.FailureTime = NoTime THEN last.clock ELSE last.pre.FailureTime)
        /\ last.attempted.FailureTime # NoTime
        /\ ReadyOf(last.attempted) =
              [Type |-> ConditionReady, Status |-> ConditionFalse,
               Reason |-> ReasonDenied, Message |-> DeniedMessage]
        /\ (last.updateOK => last.err = NilError /\ last.post = last.attempted)

(***************************************************************************)
(* C8.  With approval gating enabled, an invocation on a request that is   *)
(* neither approved nor denied adds or changes no condition and makes no   *)
(* issuer, secret or CA call; on an approved request it goes past the      *)
(* gate: it initializes the Ready condition, or resolves the issuer.       *)
(***************************************************************************)
C8_ApprovalGate ==
    /\ (/\ PastReadyGate
        /\ reconciler.CheckApprovedCondition
        /\ ~CertificateRequestIsApproved(last.pre)
        /\ ~CertificateRequestIsDenied(last.pre))
       => /\ last.attempted.Conditions = last.pre.Conditions
          /\ last.post.Conditions = last.pre.Conditions
          /\ NoOutboundCalls
    /\ (/\ PastReadyGate
        /\ reconciler.CheckApprovedCondition
        /\ CertificateRequestIsApproved(last.pre)
        /\ ~CertificateRequestIsDenied(last.pre))
       => /\ (ReadyOf(last.pre) = NoCondition =>
                 ReadyOf(last.attempted) =
                    [Type |-> ConditionReady, Status |-> ConditionFalse,
                     Reason |-> ReasonPending, Message |-> InitializingMessage])
          /\ (ReadyOf(last.pre) # NoCondition /\ last.pre.Kind \in IssuerKinds =>
                 last.issuerGets = <<IssuerLookupKey(last.pre)>>)
          /\ (ReadyOf(last.pre) # NoCondition /\ last.pre.Kind \notin IssuerKinds =>
                 ReadyIs(last.attempted, ConditionFalse, ReasonFailed))

C8_Witness ==
    /\ PastReadyGate
    /\ reconciler.CheckApprovedCondition
    /\ ~CertificateRequestIsApproved(last.pre)
    /\ ~CertificateRequestIsDenied(last.pre)
    /\ last.updates = 1
    /\ last.post = last.pre

(***************************************************************************)
(* C9.  As stated: an invocation that passes the group, Ready, denied and  *)
(* approval gates and finds no Ready condition sets Ready to False/Pending *)
(* with message "Initializing", returns no error, and makes no issuer,     *)
(* secret or CA call.                                                      *)
(***************************************************************************)
C9_InitializingReturnsNoError ==
    (PastApprovalGate /\ ReadyOf(last.pre) = NoCondition) =>
        /\ ReadyOf(last.attempted) =
              [Type |-> ConditionReady, Status |-> ConditionFalse,
               Reason |-> ReasonPending, Message |-> InitializingMessage]
        /\ last.err = NilError
        /\ NoOutboundCalls

\* C9, amended: such an invocation submits Ready=False/Pending "Initializing"
\* to the status update and makes no issuer, secret or CA call; it returns no
\* error when the update succeeds (and the condition is then stored), and the
\* update's error when the update fails.
C9_InitializingSeedsReady ==
    (PastApprovalGate /\ ReadyOf(last.pre) = NoCondition) =>
        /\ ReadyOf(last.attempted) =
              [Type |-> ConditionReady, Status |-> ConditionFalse,
               Reason |-> ReasonPending, Message |-> InitializingMessage]
        /\ OtherConditions(last.attempted) = OtherConditions(last.pre)
        /\ last.updates = 1
        /\ (last.updateOK => last.err = NilError /\ last.post = last.attempted)
        /\ (~last.updateOK => last.err = Err(UpdateErrText) /\ last.post = last.pre)
        /\ NoOutboundCalls

C9_Witness ==
    /\ PastApprovalGate
    /\ ReadyOf(last.pre) = NoCondition
    /\ last.pre.Kind \in IssuerKinds
    /\ last.updateOK
    /\ ReadyIs(last.post, ConditionFalse, ReasonPending)

(***************************************************************************)
(* C10.  As stated: for a request past the gates whose issuerRef.kind is   *)
(* not a recognized issuer kind, Reconcile sets Ready to False/Failed and  *)
(* returns no error, without fetching an issuer or a secret or calling the *)
(* CA.                                                                     *)
(***************************************************************************)
C10_UnknownKindReturnsNoError ==
    (PastGates /\ last.pre.Kind \notin IssuerKinds) =>
        /\ ReadyIs(last.attempted, ConditionFalse, ReasonFailed)
        /\ last.err = NilError
        /\ NoOutboundCalls

\* C10, amended: for such a request Reconcile submits Ready=False/Failed to
\* the status update without fetching an issuer or a secret or calling the
\* CA; it returns no error when the update succeeds (and Failed is then
\* stored), and the update's error when the update fails.
C10_UnknownKindFailsTerminally ==
    (PastGates /\ last.pre.Kind \notin IssuerKinds) =>
        /\ ReadyIs(last.attempted, ConditionFalse, ReasonFailed)
        /\ last.updates = 1
        /\ (last.updateOK => last.err = NilError /\ last.post = last.attempted)
        /\ (~last.updateOK => last.err = Err(UpdateErrText) /\ last.post = last.pre)
        /\ NoOutboundCalls

C10_Witness ==
    /\ PastGates
    /\ last.pre.Kind = "UnknownKind"
    /\ last.updateOK
    /\ ReadyIs(last.post, ConditionFalse, ReasonFailed)
    /\ last.err = NilError

\* A message mentions a phrase when the phrase occurs in it, between one of
\* the texts the controller puts before a phrase and one it puts after.
LeadingTexts == {"", "issuer is ", "failed to get issuer client for ca-issuer: "}

TrailingTexts ==
    {""} \cup {": " \o ErrorText(NewSigner(su.data, su.KeyvaultName).err) : su \in Setups}

Mentions(message, phrase) ==
    \E lead \in LeadingTexts, trail \in TrailingTexts : message = lead \o phrase \o trail

\* The invocation fetched an issuer whose Ready condition is absent or not True.
IssuerFetchedNotReady ==
    /\ PastGates
    /\ last.issuer # NoIssuer
    /\ ~IsReady(last.issuer.Status)

(***************************************************************************)
(* C11.  When the referenced issuer's Ready condition is absent or not     *)
(* True, Reconcile returns a retryable error, the request it submits to    *)
(* the status update (and the stored request, when the update succeeds)    *)
(* has Ready=False/Pending with a message mentioning "not ready", no       *)
(* secret is fetched, no CA call is made and no certificate bytes are set. *)
(***************************************************************************)
C11_IssuerNotReadyIsRetryable ==
    IssuerFetchedNotReady =>
        /\ last.err # NilError
        /\ last.err[1] = errIssuerNotReady
        /\ ReadyIs(last.attempted, ConditionFalse, ReasonPending)
        /\ Mentions(ReadyOf(last.attempted).Message, "not ready")
        /\ last.updates = 1
        /\ (last.updateOK => last.post = last.attempted)
        /\ last.secretGets = <<>>
        /\ last.caCalls = 0
        /\ last.caCreated = 0
        /\ last.attempted.Certificate = NoBytes
        /\ last.post.Certificate = NoBytes

C11_Witness ==
    /\ IssuerFetchedNotReady
    /\ GetReadyCondition(last.issuer.Status) # NoCondition
    /\ last.updateOK
    /\ ReadyIs(last.post, ConditionFalse, ReasonPending)
    /\ ReadyOf(last.post).Message = errIssuerNotReady

\* The invocation fetched the secret and NewSigner fails on it.
SignerBuildFails ==
    /\ PastGates
    /\ last.secretData # NoSecret
    /\ NewSigner(last.secretData, last.issuer.Spec.KeyvaultName).err # NilError

(***************************************************************************)
(* C12.  When building the Signer fails (bad cloud name, invalid vault     *)
(* name, unparseable useManagedIdentity, no usable credentials), Reconcile *)
(* returns a retryable error and the Ready message of the request it       *)
(* submits carries the builder's reason "failed to build (the) signer",    *)
(* and not the reason "failed to sign".                                    *)
(***************************************************************************)
C12_BuildFailureCarriesBuilderReason ==
    SignerBuildFails =>
        /\ last.err # NilError
        /\ ReadyIs(last.attempted, ConditionFalse, ReasonPending)
        /\ \/ Mentions(ReadyOf(last.attempted).Message, errSignerBuilder)
           \/ Mentions(ReadyOf(last.attempted).Message, "failed to build signer")
        /\ ~Mentions(ReadyOf(last.attempted).Message, errSignerSign)

(***************************************************************************)
(* C13.  For kind Issuer the issuer lookup and the auth-secret lookup both *)
(* use the request's namespace; for kind ClusterIssuer the issuer lookup   *)
(* uses no namespace and the auth-secret lookup uses the cluster-resource  *)
(* namespace the process was started with.                                 *)
(***************************************************************************)
C13_VariantNamespaces ==
    (PastGates /\ last.issuerGets # <<>>) =>
        /\ Len(last.issuerGets) = 1
        /\ last.issuerGets[1].Kind = last.pre.Kind
        /\ last.issuerGets[1].Name = last.pre.IssuerName
        /\ Len(last.secretGets) <= 1
        /\ last.pre.Kind = "Issuer" =>
              /\ last.issuerGets[1].Namespace = last.pre.Namespace
              /\ last.secretGets # <<>> => last.secretGets[1].Namespace = last.pre.Namespace
        /\ last.pre.Kind = "ClusterIssuer" =>
              /\ last.issuerGets[1].Namespace = ""
              /\ last.secretGets # <<>> =>
                    last.secretGets[1].Namespace = clusterResourceNamespace

(***************************************************************************)
(* The functions of the signer package on their own.  The stores are kept  *)
(* fixed; a step applies one function to an input drawn from a bounded set *)
(* and logs the input and the result in last.                              *)
(***************************************************************************)
MaxDrawnLen == 3

NameAlphabet == {"a", "Z", "-", "7", "_"}

TooLongVault ==
    <<"t", "o", "o", "l", "o", "n", "g", "v", "a", "u", "l", "t", "n", "a", "m", "e",
      "-", "-", "-", "-", "-", "-", "-", "1", "2", "3", "4", "5", "6">>
BadCharsVault == <<"b", "a", "d", "_", "n", "a", "m", "e", "!">>

\* Names around the maximum length, ending in each character of the alphabet.
LongVaults ==
    {[i \in 1..n |-> IF i = n THEN ch ELSE "v"] :
        n \in (MaxVaultNameLen - 1)..(MaxVaultNameLen + 1), ch \in NameAlphabet}

VaultNames ==
    UNION {[1..n -> NameAlphabet] : n \in 0..MaxDrawnLen}
        \cup LongVaults \cup {GoodVault, ShortVault, TooLongVault, BadCharsVault}

Environments == {PublicCloud, ChinaCloud}

AuthConfigs ==
    [cloud : {"", "AzureChinaCloud"}, tenantID : {"t", "%zz"},
     aadClientID : {"", "c"}, aadClientSecret : {"", "s"},
     userAssignedIdentityID : {"", "id"}, useManagedIdentity : BOOLEAN]

FormatBool(b) == IF b THEN "true" ELSE "false"

\* The secret payload of an auth config.
serialize(config) ==
    [k \in {"cloud", "tenantID", "aadClientID", "aadClientSecret",
            "useManagedIdentity", "userAssignedIdentity"} |->
        CASE k = "cloud" -> config.cloud
          [] k = "tenantID" -> config.tenantID
          [] k = "aadClientID" -> config.aadClientID
          [] k = "aadClientSecret" -> config.aadClientSecret
          [] k = "useManagedIdentity" -> FormatBool(config.useManagedIdentity)
          [] k = "userAssignedIdentity" -> config.userAssignedIdentityID]

NoFunctionCall == [fn |-> "none"]

InitFunctions ==
    /\ reconciler = MainWiring
    /\ crs = [id \in ReqIds |-> NoCR]
    /\ issuers = [key \in IssuerKeys |->
                     NewIssuer(key, [KeyvaultName |-> GoodVault, data |-> ServicePrincipalSecret])]
    /\ secrets = [key \in SecretKeys |-> ServicePrincipalSecret]
    /\ caCerts = [id \in ReqIds |-> 0]
    /\ now = 1
    /\ last = NoFunctionCall

CallGetVaultURL ==
    \E env \in Environments, vaultName \in VaultNames :
        /\ last' = [fn |-> "getVaultURL", env |-> env, vaultName |-> vaultName,
                    out |-> getVaultURL(env, vaultName)]
        /\ UNCHANGED <<reconciler, crs, issuers, secrets, caCerts, now>>

CallGetServicePrincipalToken ==
    \E config \in AuthConfigs, env \in Environments :
        /\ last' = [fn |-> "getServicePrincipalToken", config |-> config, env |-> env,
                    resource |-> <<env.KeyVaultEndpoint[1]>>,
                    out |-> getServicePrincipalToken(config, env, <<env.KeyVaultEndpoint[1]>>)]
        /\ UNCHANGED <<reconciler, crs, issuers, secrets, caCerts, now>>

CallSerializeThenParse ==
    \E config \in AuthConfigs :
        /\ last' = [fn |-> "getConfigFromSecretData", config |-> config,
                    data |-> serialize(config),
                    out |-> getConfigFromSecretData(serialize(config))]
        /\ UNCHANGED <<reconciler, crs, issuers, secrets, caCerts, now>>

\* Secret payloads that make each step of NewSigner fail or pass, in every
\* combination: the flag, the cloud name, the credentials.
SignerSecrets ==
    {[k \in {"useManagedIdentity", "cloud", "tenantID", "aadClientID", "aadClientSecret"} |->
        CASE k = "useManagedIdentity" -> flag
          [] k = "cloud" -> cloud
          [] k = "tenantID" -> "t"
          [] k = "aadClientID" -> client
          [] k = "aadClientSecret" -> "s"] :
        flag \in {"", "yes", "true", "false"},
        cloud \in {"", "NoSuchCloud", "AzureChinaCloud"},
        client \in {"", "c"}}

SignerVaults == {GoodVault, ShortVault, BadCharsVault}

CallNewSigner ==
    \E creds \in SignerSecrets, vaultName \in SignerVaults :
        /\ last' = [fn |-> "NewSigner", creds |-> creds, vaultName |-> vaultName,
                    out |-> NewSigner(creds, vaultName)]
        /\ UNCHANGED <<reconciler, crs, issuers, secrets, caCerts, now>>

CallGetKeyvaultToken ==
    \E config \in AuthConfigs, env \in Environments :
        /\ last' = [fn |-> "getKeyvaultToken", config |-> config, env |-> env,
                    out |-> getKeyvaultToken(config, env)]
        /\ UNCHANGED <<reconciler, crs, issuers, secrets, caCerts, now>>

NextFunctions ==
    \/ CallGetVaultURL
    \/ CallGetServicePrincipalToken
    \/ CallSerializeThenParse
    \/ CallNewSigner
    \/ CallGetKeyvaultToken

SpecFunctions == InitFunctions /\ [][NextFunctions]_vars

\* The OAuth configuration of the logged call can be created from its tenant ID.
OAuthConfigCreated ==
    NewOAuthConfig(last.env.ActiveDirectoryEndpoint, last.config.tenantID).err = NilError

\* The strategy the priority order selects for a config ("" when none).
SelectedStrategy(config) ==
    IF config.useManagedIdentity /\ config.userAssignedIdentityID # "" THEN "UserAssignedMSI"
    ELSE IF config.useManagedIdentity THEN "SystemAssignedMSI"
    ELSE IF config.aadClientID # "" /\ config.aadClientSecret # "" THEN "ServicePrincipal"
    ELSE ""

\* The logged getServicePrincipalToken call returned what the priority order selects.
ReturnedSelectedStrategy ==
    IF SelectedStrategy(last.config) = ""
    THEN /\ last.out.token = NoToken
         /\ last.out.err = Err("no credentials provided for accessing keyvault")
    ELSE /\ last.out.err = NilError
         /\ last.out.token.strategy = SelectedStrategy(last.config)
         /\ last.out.token.strategy = "UserAssignedMSI" =>
                last.out.token.userAssignedID = last.config.userAssignedIdentityID
         /\ last.out.token.strategy = "ServicePrincipal" =>
                /\ last.out.token.clientID = last.config.aadClientID
                /\ last.out.token.secret = last.config.aadClientSecret

(***************************************************************************)
(* C14.  As stated: credential selection picks exactly one strategy in     *)
(* priority order: user-assigned managed identity when useManagedIdentity  *)
(* is set and the user-assigned ID is non-empty (client ID and secret      *)
(* populated or not), system-assigned managed identity when                *)
(* useManagedIdentity is set without an ID, else the service principal     *)
(* when client ID and secret are both non-empty, else the error "no        *)
(* credentials provided".                                                  *)
(***************************************************************************)
C14_StrategyPriority ==
    last.fn = "getServicePrincipalToken" => ReturnedSelectedStrategy

\* C14, amended: when the OAuth configuration can be created from the tenant
\* ID, credential selection picks exactly one strategy in that priority
\* order; when it cannot, the result is the error "failed to create OAuth
\* config" and no strategy, whatever credentials the config holds.
C14_StrategyPriorityAfterOAuthConfig ==
    last.fn = "getServicePrincipalToken" =>
        /\ OAuthConfigCreated => ReturnedSelectedStrategy
        /\ ~OAuthConfigCreated =>
              /\ last.out.token = NoToken
              /\ last.out.err =
                    Err("failed to create OAuth config, error: " \o
                        ErrorText(NewOAuthConfig(last.env.ActiveDirectoryEndpoint,
                                                 last.config.tenantID).err))

C14_Witness ==
    /\ last.fn = "getServicePrincipalToken"
    /\ last.config.useManagedIdentity
    /\ last.config.userAssignedIdentityID # ""
    /\ last.config.aadClientID # ""
    /\ last.config.aadClientSecret # ""
    /\ last.out.err = NilError
    /\ last.out.token.strategy = "UserAssignedMSI"

\* The name satisfies the documented rule: 3 to 24 characters of [-A-Za-z0-9].
AcceptableVaultName(vaultName) ==
    /\ Len(vaultName) >= 3
    /\ Len(vaultName) <= 24
    /\ \A i \in 1..Len(vaultName) : vaultName[i] \in {"-"} \cup Letters \cup Digits

(***************************************************************************)
(* C15.  getVaultURL accepts a vault name iff its length is between 3 and  *)
(* 24 inclusive and every character is in [-A-Za-z0-9]; an accepted name   *)
(* yields exactly "https://" + vaultName + "." + KeyVaultDNSSuffix + "/",  *)
(* a rejected name an error and no URL; "ab", the 29-character name and    *)
(* "bad_name!" are rejected and "my-vault1" is accepted.                   *)
(***************************************************************************)
C15_VaultURL ==
    last.fn = "getVaultURL" =>
        /\ last.out.err = NilError <=> AcceptableVaultName(last.vaultName)
        /\ last.out.err = NilError =>
              last.out.vaultURL = <<"https://">> \o last.vaultName \o <<".">>
                                      \o last.env.KeyVaultDNSSuffix \o <<"/">>
        /\ last.out.err # NilError => last.out.vaultURL = NoURL
        /\ last.vaultName \in {ShortVault, TooLongVault, BadCharsVault} =>
              last.out.err # NilError
        /\ last.vaultName = GoodVault => last.out.err = NilError

C15_Witness ==
    /\ last.fn = "getVaultURL"
    /\ Len(last.vaultName) = MaxVaultNameLen
    /\ last.out.err = NilError
    /\ last.env = ChinaCloud
    /\ last.out.vaultURL[1] = "https://"

(***************************************************************************)
(* C19.  Round trip: for every auth config, serializing it to the secret   *)
(* payload (useManagedIdentity as "true"/"false") and parsing the payload  *)
(* with getConfigFromSecretData returns, without error, a config equal to  *)
(* the original in all six fields.                                         *)
(***************************************************************************)
C19_RoundTrip ==
    last.fn = "getConfigFromSecretData" =>
        /\ last.out.err = NilError
        /\ last.out.config.cloud = last.config.cloud
        /\ last.out.config.tenantID = last.config.tenantID
        /\ last.out.config.aadClientID = last.config.aadClientID
        /\ last.out.config.aadClientSecret = last.config.aadClientSecret
        /\ last.out.config.useManagedIdentity = last.config.useManagedIdentity
        /\ last.out.config.userAssignedIdentityID = last.config.userAssignedIdentityID

C19_Witness ==
    /\ last.fn = "getConfigFromSecretData"
    /\ last.config.useManagedIdentity
    /\ last.config.userAssignedIdentityID # ""
    /\ last.data["useManagedIdentity"] = "true"
    /\ last.out.err = NilError
    /\ last.out.config = last.config

(***************************************************************************)
(* SetReadyCondition on its own: one issuer status, starting with at most  *)
(* one Ready condition among other conditions, receives a sequence of      *)
(* calls while the clock advances.                                         *)
(***************************************************************************)
ConditionUnknown == "Unknown"

ConditionStatuses == {ConditionTrue, ConditionFalse, ConditionUnknown}

StatusKey == [Kind |-> "Issuer", Namespace |-> RequestNamespace, Name |-> "iss"]

OtherCondition(type) ==
    [Type |-> type, Status |-> ConditionTrue, Reason |-> "Other", Message |-> type,
     LastTransitionTime |-> 1]

StoredReady(conditionStatus) ==
    [Type |-> ConditionReady, Status |-> conditionStatus, Reason |-> "Stored",
     Message |-> "stored", LastTransitionTime |-> 1]

\* Condition lists with no Ready condition, or one at the head, in the
\* middle or at the end of the list.
InitialConditions ==
    {<<>>, <<OtherCondition("A")>>, <<OtherCondition("A"), OtherCondition("B")>>}
        \cup UNION {{<<StoredReady(st)>>,
                     <<StoredReady(st), OtherCondition("A")>>,
                     <<OtherCondition("A"), StoredReady(st)>>,
                     <<OtherCondition("A"), StoredReady(st), OtherCondition("B")>>} :
                        st \in ConditionStatuses}

InitConditions ==
    /\ reconciler = MainWiring
    /\ crs = [id \in ReqIds |-> NoCR]
    /\ \E conds \in InitialConditions :
          issuers = [key \in IssuerKeys |->
                        [NewIssuer(key, [KeyvaultName |-> GoodVault,
                                         data |-> ServicePrincipalSecret])
                            EXCEPT !.Status.Conditions = conds]]
    /\ secrets = [key \in SecretKeys |-> ServicePrincipalSecret]
    /\ caCerts = [id \in ReqIds |-> 0]
    /\ now = 1
    /\ last = NoFunctionCall

CallSetReadyCondition ==
    \E conditionStatus \in ConditionStatuses, reason \in {"Checked", "Rechecked"},
       message \in {"", "done"} :
        \E post \in {SetReadyCondition(issuers[StatusKey].Status, conditionStatus,
                                       reason, message, now)} :
            /\ issuers' = [issuers EXCEPT ![StatusKey].Status = post]
            /\ last' = [fn |-> "SetReadyCondition", pre |-> issuers[StatusKey].Status,
                        conditionStatus |-> conditionStatus, reason |-> reason,
                        message |-> message, now |-> now, post |-> post]
            /\ UNCHANGED <<reconciler, crs, secrets, caCerts, now>>

NextConditions ==
    \/ CallSetReadyCondition
    \/ Tick

SpecConditions == InitConditions /\ [][NextConditions]_vars

\* The positions of the Ready conditions in a list.
ReadyPositions(conds) == {i \in 1..Len(conds) : conds[i].Type = ConditionReady}

(***************************************************************************)
(* C16.  After any sequence of SetReadyCondition calls on a status that    *)
(* starts with at most one Ready condition, the list holds exactly one     *)
(* Ready condition: a call on a list without one appends it, a call on a   *)
(* list with one replaces it in place, and the order and content of all    *)
(* other conditions are unchanged.                                         *)
(***************************************************************************)
C16_OneReadyCondition ==
    /\ Cardinality(ReadyPositions(issuers[StatusKey].Status.Conditions)) <= 1
    /\ last.fn = "SetReadyCondition" =>
          LET before == last.pre.Conditions
              after == last.post.Conditions
          IN  /\ Cardinality(ReadyPositions(issuers[StatusKey].Status.Conditions)) = 1
              /\ Cardinality(ReadyPositions(after)) = 1
              /\ ReadyPositions(before) = {} =>
                    /\ Len(after) = Len(before) + 1
                    /\ SubSeq(after, 1, Len(before)) = before
                    /\ ReadyPositions(after) = {Len(after)}
              /\ ReadyPositions(before) # {} =>
                    /\ Len(after) = Len(before)
                    /\ ReadyPositions(after) = ReadyPositions(before)
                    /\ \A i \in 1..Len(before) :
                          i \notin ReadyPositions(before) => after[i] = before[i]

C16_Witness ==
    /\ last.fn = "SetReadyCondition"
    /\ Len(last.pre.Conditions) = 3
    /\ ReadyPositions(last.pre.Conditions) = {2}
    /\ ReadyPositions(last.post.Conditions) = {2}
    /\ last.post.Conditions[2] # last.pre.Conditions[2]
    /\ last.post.Conditions[1] = OtherCondition("A")
    /\ last.post.Conditions[3] = OtherCondition("B")

(***************************************************************************)
(* C17.  SetReadyCondition stamps a new lastTransitionTime iff the new     *)
(* status differs from the stored Ready condition's status (a newly        *)
(* created condition counts as differing): a call that changes only reason *)
(* or message keeps the stored lastTransitionTime, and reason and message  *)
(* are always overwritten.                                                 *)
(***************************************************************************)
C17_TransitionTime ==
    last.fn = "SetReadyCondition" =>
        LET old == GetReadyCondition(last.pre)
            new == GetReadyCondition(last.post)
            differs == old = NoCondition \/ old.Status # last.conditionStatus
        IN  /\ new # NoCondition
            /\ new.Status = last.conditionStatus
            /\ new.Reason = last.reason
            /\ new.Message = last.message
            /\ differs => new.LastTransitionTime = last.now
            /\ ~differs => new.LastTransitionTime = old.LastTransitionTime

C17_Witness ==
    /\ last.fn = "SetReadyCondition"
    /\ GetReadyCondition(last.pre) # NoCondition
    /\ GetReadyCondition(last.pre).Status = last.conditionStatus
    /\ GetReadyCondition(last.pre).Reason # last.reason
    /\ GetReadyCondition(last.pre).LastTransitionTime < last.now
    /\ GetReadyCondition(last.post).LastTransitionTime
          = GetReadyCondition(last.pre).LastTransitionTime
    /\ GetReadyCondition(last.post).Reason = last.reason

\* The invocation fetched the auth secret.
SecretFetched == PastGates /\ last.secretData # NoSecret

\* The value the fetched secret holds under a key ("" when the key is missing).
FetchedValue(key) == IF key \in DOMAIN last.secretData THEN last.secretData[key] ELSE ""

\* The fetched secret's useManagedIdentity is present, non-empty and no boolean.
UnparseableFlag ==
    /\ FetchedValue("useManagedIdentity") # ""
    /\ FetchedValue("useManagedIdentity") \notin
          {"1", "t", "T", "TRUE", "true", "True", "0", "f", "F", "FALSE", "false", "False"}

(***************************************************************************)
(* C18.  getConfigFromSecretData maps each missing key to the empty string *)
(* (false for useManagedIdentity), takes an empty useManagedIdentity for   *)
(* false without error, and returns an error and no config when            *)
(* useManagedIdentity is present, non-empty and not a boolean; in that     *)
(* case Reconcile returns a retryable error and Ready stays False/Pending. *)
(***************************************************************************)
C18_ConfigFromSecretData ==
    SecretFetched =>
        LET c == getConfigFromSecretData(last.secretData)
        IN  /\ ~UnparseableFlag =>
                  /\ c.err = NilError
                  /\ c.config.cloud = FetchedValue("cloud")
                  /\ c.config.tenantID = FetchedValue("tenantID")
                  /\ c.config.aadClientID = FetchedValue("aadClientID")
                  /\ c.config.aadClientSecret = FetchedValue("aadClientSecret")
                  /\ c.config.userAssignedIdentityID = FetchedValue("userAssignedIdentity")
                  /\ FetchedValue("useManagedIdentity") = "" => ~c.config.useManagedIdentity
            /\ UnparseableFlag =>
                  /\ c.err # NilError
                  /\ c.config = NoConfig
                  /\ last.err # NilError
                  /\ last.signer = NoSigner
                  /\ last.caCalls = 0
                  /\ ReadyIs(last.pre, ConditionFalse, ReasonPending)
                  /\ ReadyIs(last.attempted, ConditionFalse, ReasonPending)
                  /\ ReadyIs(last.post, ConditionFalse, ReasonPending)

C18_Witness ==
    /\ SecretFetched
    /\ UnparseableFlag
    /\ last.updateOK
    /\ last.err # NilError
    /\ ReadyIs(last.post, ConditionFalse, ReasonPending)
    /\ ReadyOf(last.post).Message # ReadyOf(last.pre).Message

(***************************************************************************)
(* C20.  The gates are evaluated in the order foreign group, Ready=True,   *)
(* denied, approval, missing Ready condition, and the first matching gate  *)
(* alone decides the outcome; in particular a denied request that is also  *)
(* unapproved (gating enabled) or has no Ready condition ends with         *)
(* Ready=False/Denied and failureTime set, not ignored and not             *)
(* Pending/"Initializing".                                                 *)
(***************************************************************************)
C20_GatePrecedence ==
    Fetched =>
        LET foreign == last.pre.Group # ExpectedGroup
            ready == IsReadyTrue(last.pre)
            denied == CertificateRequestIsDenied(last.pre)
            unapproved == /\ reconciler.CheckApprovedCondition
                          /\ ~CertificateRequestIsApproved(last.pre)
            noReady == ReadyOf(last.pre) = NoCondition
            ignored == last.attempted = last.pre /\ NoOutboundCalls
        IN  /\ foreign => ignored /\ last.updates = 0
            /\ (~foreign /\ ready) => ignored /\ last.updates = 0
            /\ (~foreign /\ ~ready /\ denied) =>
                  /\ ReadyIs(last.attempted, ConditionFalse, ReasonDenied)
                  /\ last.attempted.FailureTime # NoTime
                  /\ NoOutboundCalls
                  /\ last.updateOK => last.post = last.attempted
            /\ (~foreign /\ ~ready /\ ~denied /\ unapproved) => ignored /\ last.updates = 1
            /\ (~foreign /\ ~ready /\ ~denied /\ ~unapproved /\ noReady) =>
                  /\ ReadyIs(last.attempted, ConditionFalse, ReasonPending)
                  /\ ReadyOf(last.attempted).Message = InitializingMessage
                  /\ NoOutboundCalls

(***************************************************************************)
(* Liveness.  The dispatcher re-invokes Reconcile for the request as long  *)
(* as an invocation whose outbound calls and status update succeed would   *)
(* change something: weak fairness of such an invocation.                  *)
(***************************************************************************)
GoodInput == [fail |-> "none", updateOK |-> TRUE]

\* One request over a working issuer and secret, under every wiring; the
\* clock stands still (it only feeds failureTime and transition times).
InitLive ==
    /\ \E w \in Wirings, kind \in IssuerKinds :
          /\ reconciler = w
          /\ crs = [id \in ReqIds |->
                       IF id = "r1"
                       THEN NewRequest(id, [Group |-> ExpectedGroup, Kind |-> kind,
                                            csrValid |-> TRUE])
                       ELSE NoCR]
    /\ issuers = [key \in IssuerKeys |->
                     NewIssuer(key, [KeyvaultName |-> GoodVault, data |-> ServicePrincipalSecret])]
    /\ secrets = [key \in SecretKeys |-> ServicePrincipalSecret]
    /\ caCerts = [id \in ReqIds |-> 0]
    /\ now = 1
    /\ last = NoCall

NextLive ==
    \/ Reconcile("r1")
    \/ Approve("r1")
    \/ Deny("r1")
    \/ \E key \in IssuerKeys : IssuerStatusChange(key)

\* What an invocation with the good input leaves behind in the current state.
GoodRun ==
    IF BeforeDefer("r1", GoodInput).path # "" THEN BeforeDefer("r1", GoodInput)
    ELSE Deferred(AfterDefer(crs["r1"], GoodInput), GoodInput)

\* Such an invocation can be taken and changes the stored request or the log:
\* the state predicate that ENABLED <<ReconcileWith("r1", GoodInput)>>_vars is.
GoodRunEnabled ==
    LET stored == IF GoodRun.updateOK THEN GoodRun.cr ELSE crs["r1"]
        logged == [req |-> "r1", path |-> GoodRun.path, pre |-> crs["r1"],
                   attempted |-> GoodRun.cr, post |-> stored,
                   result |-> GoodRun.result,
                   err |-> IF GoodRun.panicked THEN NilError ELSE GoodRun.err,
                   panicked |-> GoodRun.panicked,
                   updates |-> GoodRun.updates, updateOK |-> GoodRun.updateOK,
                   issuerGets |-> GoodRun.issuerGets, secretGets |-> GoodRun.secretGets,
                   issuer |-> GoodRun.issuer, secretData |-> GoodRun.secretData,
                   signer |-> GoodRun.signer,
                   caCalls |-> GoodRun.caCalls, caCreated |-> GoodRun.caCreated,
                   clock |-> now]
    IN  /\ caCerts["r1"] + GoodRun.caCreated <= MaxSigns
        /\ \/ stored # crs["r1"]
           \/ GoodRun.caCreated # 0
           \/ logged # last

\* Weak fairness of the good invocation, with its enabling condition spelled out.
GoodRunFairness ==
    []<>(~GoodRunEnabled) \/ []<><<ReconcileWith("r1", GoodInput)>>_vars

LiveSpec == InitLive /\ [][NextLive]_vars /\ GoodRunFairness

\* The request is of the expected group, of a recognized kind, and not denied.
Eligible ==
    /\ crs["r1"] # NoCR
    /\ crs["r1"].Group = ExpectedGroup
    /\ crs["r1"].Kind \in IssuerKinds
    /\ ~CertificateRequestIsDenied(crs["r1"])

\* The request is approved, or approval gating is disabled.
Cleared ==
    /\ crs["r1"] # NoCR
    /\ ~reconciler.CheckApprovedCondition \/ CertificateRequestIsApproved(crs["r1"])

\* The issuer the request refers to exists and is Ready.
IssuerIsReady ==
    /\ crs["r1"] # NoCR
    /\ IssuerLookupKey(crs["r1"]) \in DOMAIN issuers
    /\ IsReady(issuers[IssuerLookupKey(crs["r1"])].Status)

\* The secret fetch, the signer build and the decoding of the CSR succeed.
Serviceable ==
    /\ IssuerIsReady
    /\ LET spec == issuers[IssuerLookupKey(crs["r1"])].Spec
           secretName == [Namespace |-> SecretNamespace(crs["r1"]), Name |-> spec.AuthSecretName]
       IN  /\ secretName \in DOMAIN secrets
           /\ NewSigner(secrets[secretName], spec.KeyvaultName).err = NilError
    /\ crs["r1"].csrValid

\* The stored request is Ready=True/Issued.
Issued == crs["r1"] # NoCR /\ ReadyIs(crs["r1"], ConditionTrue, ReasonIssued)

(***************************************************************************)
(* C21.  For a request of the expected group with a recognized kind that   *)
(* is never denied: if the dispatcher keeps re-invoking Reconcile, and     *)
(* eventually the request is approved (or gating is disabled), the issuer  *)
(* is Ready, and the secret fetch, signer build, Sign call and status      *)
(* update succeed (while the CA still accepts a certificate for the        *)
(* request), then the request eventually is Ready=True/Issued and stays    *)
(* so.                                                                     *)
(***************************************************************************)
C21_EventuallyIssued ==
    ( /\ [](Eligible /\ (~Issued => caCerts["r1"] < MaxSigns))
      /\ <>[](Cleared /\ Serviceable) )
        => <>[]Issued

C21_Witness ==
    /\ last.path = "issued"
    /\ last.updateOK
    /\ last.req = "r1"
    /\ Issued
    /\ Eligible /\ Cleared /\ Serviceable

\* The request as read is denied, or unapproved under approval gating, or the
\* issuer the invocation fetched is not Ready.
WithoutClearance ==
    /\ Fetched
    /\ \/ CertificateRequestIsDenied(last.pre)
       \/ reconciler.CheckApprovedCondition /\ ~CertificateRequestIsApproved(last.pre)
       \/ last.issuer # NoIssuer /\ ~IsReady(last.issuer.Status)

(***************************************************************************)
(* C22.  No signing without clearance: an invocation for a request that is *)
(* denied, or unapproved while approval gating is enabled, or whose issuer *)
(* is not Ready, never invokes Sign, and writes no certificate bytes.      *)
(***************************************************************************)
C22_NoSigningWithoutClearance ==
    WithoutClearance =>
        /\ last.caCalls = 0
        /\ last.caCreated = 0
        /\ last.signer = NoSigner
        /\ last.path \notin {"signErr", "issued"}
        /\ last.attempted.Certificate = last.pre.Certificate
        /\ last.post.Certificate = last.pre.Certificate

C22_Witness ==
    /\ WithoutClearance
    /\ CertificateRequestIsDenied(last.pre)
    /\ ReadyOf(last.pre) # NoCondition
    /\ ~IsReadyTrue(last.pre)
    /\ last.updateOK
    /\ ReadyIs(last.post, ConditionFalse, ReasonDenied)
    /\ last.caCalls = 0

(***************************************************************************)
(* C23.  Idempotent issuance: across any sequence of Reconcile invocations *)
(* for one request, invocations whose status update fails included, the CA *)
(* backend receives at most one successful create-certificate call for     *)
(* that request.                                                           *)
(***************************************************************************)
C23_AtMostOneCertificate ==
    \A id \in ReqIds : caCerts[id] <= 1

(***************************************************************************)
(* Two requests side by side, one per issuer kind, over working secrets    *)
(* and issuers that are Ready from the start; the clock stands still and   *)
(* the issuers' status is left alone, so that the only steps are the       *)
(* invocations and the approval controller's.                              *)
(***************************************************************************)
ReadyIssuer(key) ==
    [NewIssuer(key, [KeyvaultName |-> GoodVault, data |-> ServicePrincipalSecret])
        EXCEPT !.Status = SetReadyCondition(@, ConditionTrue, "Checked", "", 1)]

\* The reconciler as main builds it (gating off) and one with gating on.
FrameWirings == {MainWiring} \cup {w \in FullWirings : w.CheckApprovedCondition}

InitFrame ==
    /\ reconciler \in FrameWirings
    /\ crs = [id \in ReqIds |->
                 NewRequest(id, [Group |-> ExpectedGroup,
                                 Kind |-> IF id = "r1" THEN "Issuer" ELSE "ClusterIssuer",
                                 csrValid |-> TRUE])]
    /\ issuers = [key \in IssuerKeys |-> ReadyIssuer(key)]
    /\ secrets = [key \in SecretKeys |-> ServicePrincipalSecret]
    /\ caCerts = [id \in ReqIds |-> 0]
    /\ now = 1
    /\ last = NoCall

NextFrame ==
    \/ \E id \in ReqIds : Reconcile(id)
    \/ \E id \in ReqIds : Approve(id)
    \/ \E id \in ReqIds : Deny(id)

SpecFrame == InitFrame /\ [][NextFrame]_vars

\* The fields of a request that are not status.
SpecOf(cr) ==
    IF cr = NoCR THEN NoCR
    ELSE [Name |-> cr.Name, Namespace |-> cr.Namespace, Group |-> cr.Group,
          Kind |-> cr.Kind, IssuerName |-> cr.IssuerName, csrValid |-> cr.csrValid]

\* What a step leaves alone when it is an invocation for the request id.
FrameOf(id) ==
    /\ issuers' = issuers
    /\ secrets' = secrets
    /\ reconciler' = reconciler
    /\ \A other \in ReqIds \ {id} : crs'[other] = crs[other]
    /\ SpecOf(crs'[id]) = SpecOf(crs[id])
    /\ last'.signer # NoSigner =>
          last'.signer = NewSigner(last'.secretData, last'.issuer.Spec.KeyvaultName).signer
    /\ last'.secretData # NoSecret => last'.secretData = secrets[last'.secretGets[1]]
    /\ last'.issuer # NoIssuer => last'.issuer = issuers[last'.issuerGets[1]]

(***************************************************************************)
(* C24.  Frame: an invocation of Reconcile for one request changes only    *)
(* that request's status fields; it changes neither the request's spec,    *)
(* nor an issuer, nor a secret, nor another request, nor the reconciler,   *)
(* and what it works with (issuer, secret, signer) is read and built from  *)
(* the stores during that invocation, not kept from an earlier one.        *)
(***************************************************************************)
\* The step is an invocation for the request id.  The first two conjuncts
\* follow from the third; they spare its evaluation on the other steps.
Invocation(id) ==
    /\ last'.req = id
    /\ last'.pre = crs[id]
    /\ Reconcile(id)

StepOfError(err) ==
    IF err = NilError THEN ""
    ELSE IF err = Err("failed to parse auth config: strconv.ParseBool: parsing yes: invalid syntax")
    THEN "config"
    ELSE IF err = Err("There is no cloud environment matching the name NoSuchCloud")
    THEN "cloud"
    ELSE IF err \in {Err("invalid vault name, must be between 3 and 24 chars"),
                     Err("invalid vault name, must match [-a-zA-Z0-9]{3,24}")}
    THEN "vault"
    ELSE IF err = Err("no credentials provided for accessing keyvault")
    THEN "token"
    ELSE "other"

\* The first step that fails on the logged NewSigner input, from the input alone.
FirstFailingStep ==
    IF last.creds["useManagedIdentity"] = "yes" THEN "config"
    ELSE IF last.creds["cloud"] = "NoSuchCloud" THEN "cloud"
    ELSE IF ~AcceptableVaultName(last.vaultName) THEN "vault"
    ELSE IF last.creds["useManagedIdentity"] # "true" /\ last.creds["aadClientID"] = ""
    THEN "token"
    ELSE ""

(***************************************************************************)
(* C25.  NewSigner runs its steps in the order auth-config parse, cloud    *)
(* environment resolution, vault-URL validation, token-source selection    *)
(* and returns the first failure with no Signer; it returns a Signer only  *)
(* when all four succeed; an empty cloud name resolves to the public cloud *)
(* environment and an unknown cloud name is an error.                      *)
(***************************************************************************)
C25_NewSignerStepOrder ==
    last.fn = "NewSigner" =>
        /\ StepOfError(last.out.err) = FirstFailingStep
        /\ last.out.err # NilError => last.out.signer = NoSigner
        /\ last.out.err = NilError =>
              /\ last.out.signer # NoSigner
              /\ last.out.signer.authorizer # NoToken
              /\ last.out.signer.vaultURL =
                    <<"https://">> \o last.vaultName \o <<".">> \o
                        (IF last.creds["cloud"] = "" THEN PublicCloud.KeyVaultDNSSuffix
                         ELSE ChinaCloud.KeyVaultDNSSuffix) \o <<"/">>
        /\ last.creds["cloud"] = "NoSuchCloud" => last.out.err # NilError

C25_Witness ==
    /\ last.fn = "NewSigner"
    /\ last.creds["useManagedIdentity"] = ""
    /\ last.creds["cloud"] = "NoSuchCloud"
    /\ last.vaultName = ShortVault
    /\ last.creds["aadClientID"] = ""
    /\ StepOfError(last.out.err) = "cloud"
    /\ last.out.signer = NoSigner

\* An endpoint without its trailing slash.
WithoutTrailingSlash(endpoint) ==
    IF Len(endpoint) > 0 /\ endpoint[Len(endpoint)] = "/"
    THEN SubSeq(endpoint, 1, Len(endpoint) - 1)
    ELSE endpoint

(***************************************************************************)
(* C26.  Whichever credential strategy getKeyvaultToken selects            *)
(* (user-assigned managed identity, system-assigned managed identity,      *)
(* service principal), the token source it returns is requested for the    *)
(* same resource: the environment's key-vault endpoint with any trailing   *)
(* slash stripped.                                                         *)
(***************************************************************************)
C26_TokenResource ==
    (last.fn = "getKeyvaultToken" /\ last.out.err = NilError) =>
        /\ last.out.authorizer.strategy \in
              {"UserAssignedMSI", "SystemAssignedMSI", "ServicePrincipal"}
        /\ last.out.authorizer.resource = WithoutTrailingSlash(last.env.KeyVaultEndpoint)

====
